---- MODULE Spec2Model ----
(***************************************************************************)
(* Model of the aws-glue-crawler action (src/index.ts, function run).      *)
(* run() is one asynchronous function: it reads its inputs, sends          *)
(* StartCrawler, optionally polls GetCrawler every 10 seconds until the    *)
(* state is READY or the timeout has passed, then sends GetCrawlerMetrics  *)
(* and writes the step outputs.  Every action below is one stretch of      *)
(* run() between two awaits; the remote service and the clock are the      *)
(* environment and are chosen nondeterministically.                        *)
(*                                                                         *)
(* Strings that the code parses or formats (the inputs, the numbers) are   *)
(* sequences of one-character strings; fixed literals are TLA+ strings.    *)
(***************************************************************************)
EXTENDS Integers, Sequences, FiniteSets, TLC

VARIABLES
    crawlerNameIn,   \* raw value of input crawler-name
    waitIn,          \* raw value of input wait-for-completion
    timeoutIn,       \* raw value of input timeout-minutes
    catalogIn,       \* raw value of input catalog-id
    pc,              \* where run() is: init, start, status, sleep, metrics, done
    crawlerName,     \* const crawlerName (line 7)
    waitForCompletion, \* const waitForCompletion (line 8)
    timeoutMinutes,  \* const timeoutMinutes (line 9), a JS number
    startTime,       \* const startTime (line 29)
    now,             \* Date.now(), milliseconds
    outputs,         \* the step outputs written by core.setOutput
    writes,          \* every core.setOutput call, in order
    failed,          \* the messages given to core.setFailed, in order
    warnings,        \* number of core.warning calls
    calls,           \* remote calls and sleeps issued, in order, with the name sent
    events,          \* calls, sleeps and what came back, in order
    thrown,          \* the value caught by the catch clause, if any
    lastState,       \* const state (line 39) of the latest poll, if defined
    metricsResponse, \* const metricsResponse (line 47), once it came back
    expired          \* the timeout had passed at some instant before READY was seen

vars == <<crawlerNameIn, waitIn, timeoutIn, catalogIn, pc, crawlerName,
          waitForCompletion, timeoutMinutes, startTime, now, outputs, writes,
          failed, warnings, calls, events, thrown, lastState, metricsResponse,
          expired>>

----------------------------------------------------------------------------
(* Bounds of the model.                                                    *)

\* status calls after which no further poll is started
MaxPolls == 8
\* largest table count the metrics call returns
MaxCount == 12
\* longest time a remote call takes, in milliseconds
MaxLatencyMs == 5000

----------------------------------------------------------------------------
(* Program constants.                                                      *)

\* the fixed delay between two polls, in milliseconds (line 74)
PollIntervalMs == 10000
\* milliseconds per minute (line 30: timeoutMinutes * 60 * 1000)
MsPerMinute == 60 * 1000
\* radix given to parseInt (line 9)
Radix == 10

----------------------------------------------------------------------------
(* Strings as sequences of characters.                                     *)

Digits == <<"0", "1", "2", "3", "4", "5", "6", "7", "8", "9">>

IsDigit(c) == \E i \in 1..Radix : Digits[i] = c

DigitVal(c) == (CHOOSE i \in 1..Radix : Digits[i] = c) - 1

IsSpace(c) == c = " "

S_true == <<"t", "r", "u", "e">>
S_false == <<"f", "a", "l", "s", "e">>
S_60 == <<"6", "0">>
S_0 == <<"0">>

RECURSIVE TrimLeft(_)
TrimLeft(s) ==
    IF s # <<>> /\ IsSpace(Head(s)) THEN TrimLeft(Tail(s)) ELSE s

RECURSIVE TrimRight(_)
TrimRight(s) ==
    IF s # <<>> /\ IsSpace(s[Len(s)])
        THEN TrimRight(SubSeq(s, 1, Len(s) - 1))
        ELSE s

\* String.prototype.trim
Trim(s) == TrimRight(TrimLeft(s))

----------------------------------------------------------------------------
(* JS numbers: an integer or NaN.                                          *)

NaN == [nan |-> TRUE, val |-> 0]
Num(n) == [nan |-> FALSE, val |-> n]

\* a * b on JS numbers
Mul(a, n) == IF a.nan THEN NaN ELSE Num(a.val * n)

\* a > b on JS numbers: false when either side is NaN
Gt(n, b) == ~b.nan /\ n > b.val

RECURSIVE DigitsValue(_, _)
\* the value of the longest prefix of digits of s, continuing from acc
DigitsValue(s, acc) ==
    IF s # <<>> /\ IsDigit(Head(s))
        THEN DigitsValue(Tail(s), acc * Radix + DigitVal(Head(s)))
        ELSE acc

\* parseInt(s, 10): leading blanks, an optional sign, then digits up to the
\* first character that is not a digit; NaN when there is no digit
ParseInt(str) ==
    LET s == TrimLeft(str)
        signed == s # <<>> /\ Head(s) \in {"-", "+"}
        body == IF signed THEN Tail(s) ELSE s
    IN  IF body = <<>> \/ ~IsDigit(Head(body))
            THEN NaN
            ELSE IF signed /\ Head(s) = "-"
                    THEN Num(0 - DigitsValue(body, 0))
                    ELSE Num(DigitsValue(body, 0))

RECURSIVE NatToString(_)
NatToString(n) ==
    IF n < Radix
        THEN <<Digits[n + 1]>>
        ELSE NatToString(n \div Radix) \o <<Digits[(n % Radix) + 1]>>

\* Number.prototype.toString and `${n}` on an integer or NaN
NumberToString(a) ==
    IF a.nan THEN <<"N", "a", "N">>
    ELSE IF a.val < 0 THEN <<"-">> \o NatToString(0 - a.val)
    ELSE NatToString(a.val)

----------------------------------------------------------------------------
(* Optional values: <<>> is undefined, <<v>> is the value v.               *)

Undefined == <<>>
Some(v) == <<v>>
IsDefined(x) == x # <<>>

----------------------------------------------------------------------------
(* Messages and thrown values.  A message is a template: a fixed text, an  *)
(* interpolated value and a fixed text.                                    *)

Msg(text) == [prefix |-> text, value |-> <<>>, suffix |-> ""]

\* new Error(message)
Error(message) == [isError |-> TRUE, message |-> message]

\* a thrown value that is not an instance of Error
NonError == [isError |-> FALSE, message |-> Msg("")]

\* the error core.getInput throws for a required input without a value
InputRequiredError == Error(Msg("Input required and not supplied: crawler-name"))

\* the message naming the bound in milliseconds
TimeoutError_Ms(minutes) ==
    Error([prefix |-> "Crawler did not complete within ",
           value |-> NumberToString(Mul(minutes, MsPerMinute)),
           suffix |-> " minutes"])

\* new Error(`Crawler did not complete within ${timeoutMinutes} minutes`)
TimeoutError(minutes) ==
    Error([prefix |-> "Crawler did not complete within ",
           value |-> NumberToString(minutes),
           suffix |-> " minutes"])

----------------------------------------------------------------------------
(* The environment: what the Glue service and the SDK can answer.          *)

Latencies == {0, MaxLatencyMs}

EntityNotFound == Error(Msg("Crawler entry with name c does not exist"))
CrawlerRunning == Error(Msg("Crawler with name c has already started"))
AccessDenied == Error(Msg("User is not authorized to perform the action"))
Throttling == Error(Msg("Rate exceeded"))

StartErrors == {EntityNotFound, CrawlerRunning, AccessDenied, NonError}
StatusErrors == {EntityNotFound, AccessDenied, Throttling, NonError}
MetricsErrors == {AccessDenied, Throttling, NonError}

\* GetCrawlerResponse: Crawler is optional and so is its State
GetCrawlerResponses ==
    {[Crawler |-> Undefined], [Crawler |-> Some([State |-> Undefined])]}
        \cup {[Crawler |-> Some([State |-> Some(s)])] :
                s \in {"READY", "RUNNING", "STOPPING"}}

Counts == {Undefined, Some(0), Some(7), Some(MaxCount)}

CrawlerMetricsEntries ==
    [TablesCreated : Counts, TablesUpdated : Counts, TablesDeleted : Counts]

OtherEntry ==
    [TablesCreated |-> Some(3), TablesUpdated |-> Some(4), TablesDeleted |-> Some(5)]

\* GetCrawlerMetricsResponse: the list is optional, and may be empty
GetCrawlerMetricsResponses ==
    {[CrawlerMetricsList |-> Undefined], [CrawlerMetricsList |-> Some(<<>>)]}
        \cup {[CrawlerMetricsList |-> Some(<<e>>)] : e \in CrawlerMetricsEntries}
        \cup {[CrawlerMetricsList |-> Some(<<e, OtherEntry>>)] :
                e \in CrawlerMetricsEntries}

----------------------------------------------------------------------------
(* @actions/core as run() uses it.                                         *)

\* the required check left out
RequiredMissing_Never(raw) == FALSE

\* core.getInput(name, {required: true}) throws when the raw value is empty
RequiredMissing(raw) == raw = <<>>

\* core.getInput returns the raw value trimmed
GetInput(raw) == Trim(raw)

\* core.setOutput(name, value) on the pair of outputs and their history
SetOutput(st, name, value) ==
    [o |-> [n \in DOMAIN st.o \cup {name} |-> IF n = name THEN value ELSE st.o[n]],
     w |-> Append(st.w, <<name, value>>)]

IsSet(name) == name \in DOMAIN outputs

----------------------------------------------------------------------------
(* The pieces of run().                                                    *)

\* any non-empty value taken as true
ParseWaitForCompletion_Truthy(raw) == GetInput(raw) # <<>>

\* line 8: core.getInput('wait-for-completion') === 'true'
ParseWaitForCompletion(raw) == GetInput(raw) = S_true

\* line 9: parseInt(core.getInput('timeout-minutes') || '60', 10)
ParseTimeoutMinutes(raw) ==
    ParseInt(IF GetInput(raw) = <<>> THEN S_60 ELSE GetInput(raw))

\* line 30: timeoutMinutes * 60 * 1000
TimeoutMs(minutes) == Mul(minutes, MsPerMinute)

\* line 69: Date.now() - startTime > timeoutMs
TimedOut(t, start, minutes) == Gt(t - start, TimeoutMs(minutes))

\* line 39: response.Crawler?.State
StateOf(response) ==
    IF IsDefined(response.Crawler) THEN response.Crawler[1].State ELSE Undefined

\* STOPPING taken as finished too
IsReady_OrStopping(state) == state \in {Some("READY"), Some("STOPPING")}

\* line 42: state === 'READY'
IsReady(state) == state = Some("READY")

\* the last entry of the list instead of the first
FirstMetrics_Last(response) ==
    IF IsDefined(response.CrawlerMetricsList) /\ response.CrawlerMetricsList[1] # <<>>
        THEN Some(response.CrawlerMetricsList[1][Len(response.CrawlerMetricsList[1])])
        ELSE Undefined

\* line 53: metricsResponse.CrawlerMetricsList?.[0]
FirstMetrics(response) ==
    IF IsDefined(response.CrawlerMetricsList) /\ response.CrawlerMetricsList[1] # <<>>
        THEN Some(response.CrawlerMetricsList[1][1])
        ELSE Undefined

\* lines 54-56: metrics?.Field?.toString() || '0', for the value of Field
MetricOutput(count) ==
    IF IsDefined(count) THEN NumberToString(Num(count[1])) ELSE S_0

\* lines 54-56: the three outputs of a metrics entry that may be undefined
MetricsOutputs(st, metrics) ==
    LET field(f) == IF IsDefined(metrics) THEN metrics[1][f] ELSE Undefined
    IN  SetOutput(
          SetOutput(
            SetOutput(st, "tables-created", MetricOutput(field("TablesCreated"))),
            "tables-updated", MetricOutput(field("TablesUpdated"))),
          "tables-deleted", MetricOutput(field("TablesDeleted")))

\* lines 60-62: the defaults written when the metrics call throws
DefaultMetricsOutputs(st) ==
    SetOutput(SetOutput(SetOutput(st, "tables-created", S_0),
                        "tables-updated", S_0),
              "tables-deleted", S_0)

\* the thrown error's message replaced by a fixed text
FailureMessage_Generic(error) == Msg("Unknown error occurred")

\* lines 81-85: the message given to core.setFailed
FailureMessage(error) ==
    IF error.isError THEN error.message ELSE Msg("Unknown error occurred")

\* the catch clause without its else branch: a value that is not an Error
\* raises no failure
Catch_NoElse(st, error) ==
    /\ thrown' = Append(thrown, error)
    /\ failed' = IF error.isError THEN Append(failed, error.message) ELSE failed
    /\ LET st2 == SetOutput(st, "success", "false")
       IN  outputs' = st2.o /\ writes' = st2.w
    /\ pc' = "done"

\* the catch clause writing a state output as well
Catch_SetsState(st, error) ==
    /\ thrown' = Append(thrown, error)
    /\ failed' = Append(failed, IF error.isError THEN error.message
                                ELSE Msg("Unknown error occurred"))
    /\ LET st2 == SetOutput(SetOutput(st, "state", "FAILED"), "success", "false")
       IN  outputs' = st2.o /\ writes' = st2.w
    /\ pc' = "done"

\* lines 80-87: the catch clause, from the outputs st
Catch(st, error) ==
    /\ thrown' = Append(thrown, error)
    /\ failed' = Append(failed, FailureMessage(error))
    /\ LET st2 == SetOutput(st, "success", "false")
       IN  outputs' = st2.o /\ writes' = st2.w
    /\ pc' = "done"

Cur == [o |-> outputs, w |-> writes]

Call(op) == [op |-> op, name |-> crawlerName]

NumCalls(op) == Cardinality({i \in 1..Len(calls) : calls[i].op = op})

----------------------------------------------------------------------------

(* Initial state: the step's inputs as the runner hands them over.         *)

CrawlerNameInputs == {<<>>, <<" ">>, <<"c">>}
WaitInputs == {<<>>, S_true, S_false, <<"T", "r", "u", "e">>}
TimeoutInputs ==
    {<<>>, <<"0">>, <<"1">>, <<"-", "1">>, <<"x">>, <<" ", "1", "m">>}
CatalogInputs == {<<>>, <<"9">>}

Init ==
    /\ crawlerNameIn \in CrawlerNameInputs
    /\ waitIn \in WaitInputs
    /\ timeoutIn \in TimeoutInputs
    /\ catalogIn \in CatalogInputs
    /\ pc = "init"
    /\ crawlerName = <<>>
    /\ waitForCompletion = FALSE
    /\ timeoutMinutes = NaN
    /\ startTime = 0
    /\ now = 0
    /\ outputs = [n \in {} |-> ""]
    /\ writes = <<>>
    /\ failed = <<>>
    /\ warnings = 0
    /\ calls = <<>>
    /\ events = <<>>
    /\ thrown = <<>>
    /\ lastState = Undefined
    /\ metricsResponse = Undefined
    /\ expired = FALSE

inputVars == <<crawlerNameIn, waitIn, timeoutIn, catalogIn>>
configVars == <<crawlerName, waitForCompletion, timeoutMinutes>>

----------------------------------------------------------------------------
(* The steps of run().                                                     *)

\* lines 7-22: read the inputs and send StartCrawler
ReadInputsAndStart ==
    /\ pc = "init"
    /\ IF RequiredMissing(crawlerNameIn)
         THEN /\ Catch(Cur, InputRequiredError)
              /\ UNCHANGED <<configVars, calls, events>>
         ELSE /\ crawlerName' = GetInput(crawlerNameIn)
              /\ waitForCompletion' = ParseWaitForCompletion(waitIn)
              /\ timeoutMinutes' = ParseTimeoutMinutes(timeoutIn)
              /\ calls' = Append(calls, [op |-> "StartCrawler", name |-> crawlerName'])
              /\ events' = Append(events, "start")
              /\ pc' = "start"
              /\ UNCHANGED <<outputs, writes, failed, thrown>>
    /\ UNCHANGED metricsResponse
    /\ UNCHANGED <<inputVars, startTime, now, warnings, lastState, expired>>

\* the success output written only where the run ends well: not at line 25,
\* so a run that waits has no success output while it polls
StartAccepted_SuccessLate ==
    /\ pc = "start"
    /\ \E l \in Latencies :
        /\ now' = now + l
        /\ IF waitForCompletion
             THEN /\ startTime' = now'
                  /\ calls' = Append(calls, Call("GetCrawler"))
                  /\ events' = events \o <<"start:ok", "status">>
                  /\ expired' = TimedOut(now', now', timeoutMinutes)
                  /\ pc' = "status"
                  /\ UNCHANGED <<outputs, writes>>
             ELSE /\ LET st2 == SetOutput(SetOutput(Cur, "success", "true"),
                                          "state", "RUNNING")
                     IN  outputs' = st2.o /\ writes' = st2.w
                  /\ events' = Append(events, "start:ok")
                  /\ pc' = "done"
                  /\ UNCHANGED <<startTime, calls, expired>>
    /\ UNCHANGED metricsResponse
    /\ UNCHANGED <<inputVars, configVars, failed, warnings, thrown, lastState>>

\* lines 25-37 and 76-79: StartCrawler was accepted
StartAccepted ==
    /\ pc = "start"
    /\ \E l \in Latencies :
        /\ now' = now + l
        /\ LET st == SetOutput(Cur, "success", "true")
           IN  IF waitForCompletion
                 THEN /\ startTime' = now'
                      /\ outputs' = st.o /\ writes' = st.w
                      /\ calls' = Append(calls, Call("GetCrawler"))
                      /\ events' = events \o <<"start:ok", "status">>
                      /\ expired' = TimedOut(now', now', timeoutMinutes)
                      /\ pc' = "status"
                 ELSE /\ LET st2 == SetOutput(st, "state", "RUNNING")
                         IN  outputs' = st2.o /\ writes' = st2.w
                      /\ events' = Append(events, "start:ok")
                      /\ pc' = "done"
                      /\ UNCHANGED <<startTime, calls, expired>>
    /\ UNCHANGED metricsResponse
    /\ UNCHANGED <<inputVars, configVars, failed, warnings, thrown, lastState>>

\* a rejected StartCrawler sent once more
StartRejected_Retry ==
    /\ pc = "start"
    /\ \E l \in Latencies, e \in StartErrors :
        /\ now' = now + l
        /\ IF Len(calls) < 2
             THEN /\ calls' = Append(calls, Call("StartCrawler"))
                  /\ events' = events \o <<"start:err", "start">>
                  /\ UNCHANGED <<pc, outputs, writes, failed, thrown>>
             ELSE /\ events' = Append(events, "start:err")
                  /\ Catch(Cur, e)
                  /\ UNCHANGED calls
    /\ UNCHANGED metricsResponse
    /\ UNCHANGED <<inputVars, configVars, startTime, warnings, lastState, expired>>

\* lines 18-22 and 80-87: StartCrawler was rejected
StartRejected ==
    /\ pc = "start"
    /\ \E l \in Latencies, e \in StartErrors :
        /\ now' = now + l
        /\ events' = Append(events, "start:err")
        /\ Catch(Cur, e)
    /\ UNCHANGED metricsResponse
    /\ UNCHANGED <<inputVars, configVars, startTime, warnings, calls, lastState,
                   expired>>

\* the timeout examined before the state: a READY that comes after the
\* deadline is a timeout
StatusReturns_TimeoutFirst ==
    /\ pc = "status"
    /\ \E l \in Latencies, response \in GetCrawlerResponses :
        LET state == StateOf(response)
            answer == IF IsReady(state) THEN "status:READY" ELSE "status:other"
        IN  /\ now' = now + l
            /\ lastState' = state
            /\ IF TimedOut(now', startTime, timeoutMinutes)
                 THEN /\ events' = events \o <<answer, "timeout">>
                      /\ expired' = TRUE
                      /\ Catch(Cur, TimeoutError(timeoutMinutes))
                      /\ UNCHANGED calls
                 ELSE IF IsReady(state)
                 THEN /\ LET st == SetOutput(Cur, "state", state[1])
                         IN  outputs' = st.o /\ writes' = st.w
                      /\ calls' = Append(calls, [op |-> "GetCrawlerMetrics",
                                                 name |-> <<crawlerName>>])
                      /\ events' = events \o <<"status:READY", "metrics">>
                      /\ pc' = "metrics"
                      /\ UNCHANGED <<failed, thrown, expired>>
                 ELSE /\ calls' = Append(calls, [op |-> "sleep", name |-> <<>>])
                      /\ events' = events \o <<"status:other", "sleep">>
                      /\ pc' = "sleep"
                      /\ UNCHANGED <<outputs, writes, failed, thrown, expired>>
    /\ UNCHANGED metricsResponse
    /\ UNCHANGED <<inputVars, configVars, startTime, warnings>>

\* lines 39-74: GetCrawler answered
StatusReturns ==
    /\ pc = "status"
    /\ \E l \in Latencies, response \in GetCrawlerResponses :
        LET state == StateOf(response)
        IN  /\ now' = now + l
            /\ lastState' = state
            /\ IF IsReady(state)
                 THEN /\ LET st == SetOutput(Cur, "state", state[1])
                         IN  outputs' = st.o /\ writes' = st.w
                      /\ calls' = Append(calls, [op |-> "GetCrawlerMetrics",
                                                 name |-> <<crawlerName>>])
                      /\ events' = events \o <<"status:READY", "metrics">>
                      /\ pc' = "metrics"
                      /\ UNCHANGED <<failed, thrown, expired>>
                 ELSE IF TimedOut(now', startTime, timeoutMinutes)
                 THEN /\ events' = events \o <<"status:other", "timeout">>
                      /\ expired' = TRUE
                      /\ Catch(Cur, TimeoutError(timeoutMinutes))
                      /\ UNCHANGED calls
                 ELSE /\ calls' = Append(calls, [op |-> "sleep", name |-> <<>>])
                      /\ events' = events \o <<"status:other", "sleep">>
                      /\ pc' = "sleep"
                      /\ UNCHANGED <<outputs, writes, failed, thrown, expired>>
    /\ UNCHANGED metricsResponse
    /\ UNCHANGED <<inputVars, configVars, startTime, warnings>>

\* a rejected GetCrawler taken as "not ready yet": the loop sleeps and polls
\* again
StatusRejected_Retry ==
    /\ pc = "status"
    /\ \E l \in Latencies, e \in StatusErrors :
        /\ now' = now + l
        /\ calls' = Append(calls, [op |-> "sleep", name |-> <<>>])
        /\ events' = events \o <<"status:err", "sleep">>
        /\ pc' = "sleep"
    /\ UNCHANGED metricsResponse
    /\ UNCHANGED <<inputVars, configVars, startTime, warnings, outputs, writes,
                   failed, thrown, lastState, expired>>

\* lines 33-37 and 80-87: GetCrawler was rejected
StatusRejected ==
    /\ pc = "status"
    /\ \E l \in Latencies, e \in StatusErrors :
        /\ now' = now + l
        /\ events' = Append(events, "status:err")
        /\ Catch(Cur, e)
    /\ UNCHANGED metricsResponse
    /\ UNCHANGED <<inputVars, configVars, startTime, warnings, calls, lastState,
                   expired>>

\* lines 74 and 32-37: the 10 second timer fired, the next GetCrawler is sent
SleepDone ==
    /\ pc = "sleep"
    /\ NumCalls("GetCrawler") < MaxPolls
    /\ now' = now + PollIntervalMs
    /\ expired' = (expired \/ TimedOut(now', startTime, timeoutMinutes))
    /\ calls' = Append(calls, Call("GetCrawler"))
    /\ events' = Append(events, "status")
    /\ pc' = "status"
    /\ UNCHANGED metricsResponse
    /\ UNCHANGED <<inputVars, configVars, startTime, outputs, writes, failed,
                   warnings, thrown, lastState>>

\* the loop without its break: after the metrics it sleeps and polls again
MetricsReturns_NoBreak ==
    /\ pc = "metrics"
    /\ \E response \in GetCrawlerMetricsResponses :
        LET st == MetricsOutputs(Cur, FirstMetrics(response))
        IN  /\ outputs' = st.o /\ writes' = st.w
            /\ metricsResponse' = Some(response)
    /\ calls' = Append(calls, [op |-> "sleep", name |-> <<>>])
    /\ events' = events \o <<"metrics:ok", "sleep">>
    /\ pc' = "sleep"
    /\ UNCHANGED <<inputVars, configVars, startTime, now, failed, warnings,
                   thrown, lastState, expired>>

\* lines 53-56 and 65-66: GetCrawlerMetrics answered
MetricsReturns ==
    /\ pc = "metrics"
    /\ \E response \in GetCrawlerMetricsResponses :
        LET st == MetricsOutputs(Cur, FirstMetrics(response))
        IN  /\ outputs' = st.o /\ writes' = st.w
            /\ metricsResponse' = Some(response)
    /\ events' = Append(events, "metrics:ok")
    /\ pc' = "done"
    /\ UNCHANGED <<inputVars, configVars, startTime, now, failed, warnings, calls,
                   thrown, lastState, expired>>

\* the metrics error not caught by the inner try: it reaches the outer catch
MetricsRejected_Propagates ==
    /\ pc = "metrics"
    /\ \E e \in MetricsErrors :
        /\ events' = Append(events, "metrics:err")
        /\ Catch(Cur, e)
    /\ UNCHANGED metricsResponse
    /\ UNCHANGED <<inputVars, configVars, startTime, now, warnings, calls,
                   lastState, expired>>

\* a rejected GetCrawlerMetrics sent once more before the defaults are used
MetricsRejected_Retry ==
    /\ pc = "metrics"
    /\ \E e \in MetricsErrors :
        IF NumCalls("GetCrawlerMetrics") < 2
          THEN /\ calls' = Append(calls, [op |-> "GetCrawlerMetrics",
                                          name |-> <<crawlerName>>])
               /\ events' = events \o <<"metrics:err", "metrics">>
               /\ UNCHANGED <<pc, outputs, writes, warnings>>
          ELSE /\ LET st == DefaultMetricsOutputs(Cur)
                  IN  outputs' = st.o /\ writes' = st.w
               /\ warnings' = warnings + 1
               /\ events' = Append(events, "metrics:err")
               /\ pc' = "done"
               /\ UNCHANGED calls
    /\ UNCHANGED metricsResponse
    /\ UNCHANGED <<inputVars, configVars, startTime, now, failed, thrown,
                   lastState, expired>>

\* lines 57-66: GetCrawlerMetrics was rejected
MetricsRejected ==
    /\ pc = "metrics"
    /\ \E e \in MetricsErrors :
        LET st == DefaultMetricsOutputs(Cur)
        IN  outputs' = st.o /\ writes' = st.w
    /\ warnings' = warnings + 1
    /\ events' = Append(events, "metrics:err")
    /\ pc' = "done"
    /\ UNCHANGED metricsResponse
    /\ UNCHANGED <<inputVars, configVars, startTime, now, failed, calls, thrown,
                   lastState, expired>>

Next ==
    \/ ReadInputsAndStart
    \/ StartAccepted
    \/ StartRejected
    \/ StatusReturns
    \/ StatusRejected
    \/ SleepDone
    \/ MetricsReturns
    \/ MetricsRejected

Spec == Init /\ [][Next]_vars

----------------------------------------------------------------------------

(* Properties.                                                             *)

Last(seq) == IF seq = <<>> THEN "none" ELSE seq[Len(seq)]

Responses ==
    {"start:ok", "start:err", "status:READY", "status:other", "status:err",
     "metrics:ok", "metrics:err"}

\* the answers of the remote service, in order
Answers == SelectSeq(events, LAMBDA e : e \in Responses)

StartCall == [op |-> "StartCrawler", name |-> GetInput(crawlerNameIn)]

Success(v) == IsSet("success") /\ outputs["success"] = v

\* the configured timeout, read from the input again
ConfiguredMinutes ==
    ParseInt(IF Trim(timeoutIn) = <<>> THEN <<"6", "0">> ELSE Trim(timeoutIn))

\* the elapsed wait is beyond the configured minutes
ElapsedExceeds ==
    /\ ~ConfiguredMinutes.nan
    /\ now - startTime > ConfiguredMinutes.val * 60 * 1000

\* C1: with a non-empty crawler-name, wait-for-completion 'false' and an
\* accepted start call, the run has ended as soon as the start call is
\* answered: success is "true", state is "RUNNING", no failure is raised, and
\* the start call is the only call (no GetCrawler, no GetCrawlerMetrics, no
\* sleep).
C1_NoWaitEndsAfterStart ==
    (crawlerNameIn # <<>> /\ waitIn = S_false /\ Answers # <<>>
        /\ Answers[1] = "start:ok")
    => /\ pc = "done"
       /\ Success("true")
       /\ IsSet("state") /\ outputs["state"] = "RUNNING"
       /\ failed = <<>>
       /\ calls = <<StartCall>>
       /\ events = <<"start", "start:ok">>

C1_Witness ==
    /\ pc = "done" /\ waitIn = S_false /\ crawlerNameIn = <<"c">>
    /\ events = <<"start", "start:ok">>

\* C2 as stated: if the elapsed wait went beyond timeoutMinutes at an instant
\* at which READY had not been observed, the run ends in failure with a
\* message holding the configured minutes, success is "false" and no metrics
\* call was made.  (Read in the claim's favour: the timeout is a positive
\* number of minutes and no status call was rejected.)
C2_ExpiredBeforeReadyFails ==
    (pc = "done" /\ waitForCompletion /\ expired
        /\ ~ConfiguredMinutes.nan /\ ConfiguredMinutes.val > 0
        /\ Last(Answers) # "status:err")
    => /\ Len(failed) = 1
       /\ failed[1].value = NumberToString(ConfiguredMinutes)
       /\ Success("false")
       /\ NumCalls("GetCrawlerMetrics") = 0

\* C2 as amended: if a status call returns a state other than READY at a
\* moment when the elapsed wait exceeds timeoutMinutes, the run ends at once in
\* failure with a message that holds the configured minutes (its number reads
\* back as the configured value), success is "false" and no metrics call is
\* made at any point of the run.
C2_TimeoutAtNonReadyPoll ==
    (pc \in {"sleep", "done"} /\ Answers # <<>> /\ Last(Answers) = "status:other"
        /\ ElapsedExceeds)
    => /\ pc = "done"
       /\ Len(failed) = 1
       /\ failed[1].prefix = "Crawler did not complete within "
       /\ ParseInt(failed[1].value) = ConfiguredMinutes
       /\ Success("false")
       /\ NumCalls("GetCrawlerMetrics") = 0

C2_Witness ==
    /\ pc = "done" /\ timeoutIn = <<"1">> /\ Last(events) = "timeout"
    /\ NumCalls("GetCrawler") > 1

\* C3: when the metrics call fails after READY, the run ends with success
\* "true", state "READY", no failure raised and the three metric outputs "0".
C3_MetricsFailureSwallowed ==
    (Answers # <<>> /\ Last(Answers) = "metrics:err")
    => /\ pc = "done"
       /\ Success("true")
       /\ IsSet("state") /\ outputs["state"] = "READY"
       /\ failed = <<>>
       /\ \A n \in {"tables-created", "tables-updated", "tables-deleted"} :
            IsSet(n) /\ outputs[n] = <<"0">>

C3_Witness ==
    /\ pc = "done" /\ Last(events) = "metrics:err" /\ warnings = 1

\* C4: when crawler-name is empty, the run fails (failure raised, success
\* "false") and issues no remote call of any kind.
C4_MissingNameNoCalls ==
    crawlerNameIn = <<>>
    => /\ calls = <<>>
       /\ pc \in {"init", "done"}
       /\ pc = "done" => (failed # <<>> /\ Success("false"))

C4_Witness ==
    crawlerNameIn = <<>> /\ pc = "done" /\ Len(failed) = 1

\* C5: with wait-for-completion true and READY returned by the first status
\* call, the run issues exactly one status call and exactly one metrics call,
\* never sleeps, and ends with success "true".
C5_ReadyOnFirstPoll ==
    (waitIn = S_true /\ Len(Answers) >= 2 /\ Answers[2] = "status:READY")
    => /\ NumCalls("GetCrawler") = 1
       /\ NumCalls("GetCrawlerMetrics") = 1
       /\ NumCalls("sleep") = 0
       /\ pc \in {"metrics", "done"}
       /\ pc = "done" => (Success("true") /\ failed = <<>>)

C5_Witness ==
    /\ pc = "done" /\ waitIn = S_true
    /\ Len(Answers) = 3 /\ Answers[2] = "status:READY"

\* C6: a run that passes input validation issues exactly one start call over
\* the whole run, whatever follows.
C6_ExactlyOneStart ==
    /\ NumCalls("StartCrawler") <= 1
    /\ (crawlerNameIn # <<>> /\ pc # "init") => NumCalls("StartCrawler") = 1
    /\ crawlerNameIn = <<>> => NumCalls("StartCrawler") = 0

C6_Witness ==
    /\ pc = "done" /\ NumCalls("StartCrawler") = 1 /\ NumCalls("GetCrawler") >= 3
    /\ failed # <<>>

C8_AlreadyRunningWaits ==
    (waitIn = S_true /\ thrown = <<CrawlerRunning>> /\ Answers = <<"start:err">>)
    => /\ failed = <<>>
       /\ NumCalls("GetCrawler") >= 1

\* C9: at the end of every run success is "true" or "false", and the failure
\* signal has been raised if and only if success is "false".
C9_SuccessIffNotFailed ==
    pc = "done"
    => /\ IsSet("success")
       /\ outputs["success"] \in {"true", "false"}
       /\ (failed # <<>>) <=> (outputs["success"] = "false")

C9_Witness ==
    /\ pc = "done" /\ thrown = <<NonError>> /\ Last(events) = "status:err"
    /\ Success("false")

\* C10: in every run that ends in failure the outputs state, tables-created,
\* tables-updated and tables-deleted are unset.
C10_FailureLeavesOutputsUnset ==
    (pc = "done" /\ (failed # <<>> \/ Success("false")))
    => DOMAIN outputs = {"success"}

C10_Witness ==
    /\ pc = "done" /\ failed # <<>> /\ NumCalls("GetCrawler") >= 2
    /\ Last(events) = "status:err"

MetricNames == {"tables-created", "tables-updated", "tables-deleted"}

\* the values written to the output name, in the order of the writes
WritesOf(name) ==
    LET w == SelectSeq(writes, LAMBDA x : x[1] = name)
    IN  [i \in 1..Len(w) |-> w[i][2]]

\* C11: a run with wait-for-completion 'false' that succeeds ends with the
\* three metric outputs tables-created, tables-updated and tables-deleted all
\* "0".
C11_NoWaitZeroMetrics ==
    (pc = "done" /\ waitIn = S_false /\ Success("true"))
    => \A n \in MetricNames : IsSet(n) /\ outputs[n] = <<"0">>

\* C12 as stated: the success output is written exactly once in every run
\* and, once written, is never written again.
C12_SuccessWrittenOnce ==
    /\ Len(WritesOf("success")) <= 1
    /\ pc = "done" => Len(WritesOf("success")) = 1

\* C12 as amended: the success output is written "true" as soon as the start
\* call is accepted and "false" when the run fails; a run that fails after
\* the start call was accepted (status rejection or timeout) therefore writes
\* it twice, first "true" and then "false", and every other run writes it
\* exactly once.  "false" is never overwritten, and the final value is the
\* last one written.
C12_SuccessWrites ==
    LET w == WritesOf("success")
        accepted == Answers # <<>> /\ Answers[1] = "start:ok"
    IN  /\ w \in {<<>>, <<"true">>, <<"false">>, <<"true", "false">>}
        /\ accepted => (w # <<>> /\ w[1] = "true")
        /\ w # <<>> => Success(Last(w))
        /\ pc = "done" =>
             /\ w # <<>>
             /\ (w = <<"true", "false">>) <=> (accepted /\ failed # <<>>)
             /\ (w = <<"false">>) <=> (~accepted)

C12_Witness ==
    /\ pc = "done" /\ WritesOf("success") = <<"true", "false">>
    /\ Last(events) = "timeout"

\* C13: the polling loop is bounded in wall-clock time for every parsed value
\* of timeout-minutes, a value that is not a number included: the run goes on
\* to another poll only while there is a deadline (timeoutMinutes after the
\* start of the loop) and the poll just answered did not complete later than
\* it; the first poll that completes later ends the run.
C13_PollingBoundedByTimeout ==
    pc = "sleep"
    => /\ ~timeoutMinutes.nan
       /\ now - startTime <= timeoutMinutes.val * 60 * 1000

\* the failure is the timeout raised at line 70
TimeoutRaised ==
    /\ failed # <<>>
    /\ failed[1].prefix = "Crawler did not complete within "

Contains(seq, x) == \E i \in 1..Len(seq) : seq[i] = x

\* C14: in each poll the READY check comes before the timeout check: a
\* status call that returns READY leads to success also when the elapsed
\* time exceeds the timeout; a waiting run issues at least one status call
\* whatever the timeout; a timeout is raised only directly after a status
\* call that returned a state other than READY.
C14_ReadyBeforeTimeout ==
    /\ Contains(Answers, "status:READY")
         => /\ failed = <<>>
            /\ pc \in {"metrics", "done"}
            /\ pc = "done" => Success("true")
    /\ (waitIn = S_true /\ Answers # <<>> /\ Answers[1] = "start:ok")
         => NumCalls("GetCrawler") >= 1
    /\ TimeoutRaised
         => /\ Last(Answers) = "status:other"
            /\ lastState # Some("READY")
            /\ ElapsedExceeds

C14_Witness ==
    /\ pc = "done" /\ timeoutIn = <<"1">> /\ ElapsedExceeds
    /\ Contains(Answers, "status:READY") /\ Success("true")

Ops == [i \in 1..Len(calls) |-> calls[i].op]

\* what may follow the first READY in the history
AfterReady ==
    {<<"metrics">>, <<"metrics", "metrics:ok">>, <<"metrics", "metrics:err">>}

\* C15: the remote calls come in the order start, then status calls, then at
\* most one metrics call: nothing is called before the start call was
\* accepted, the metrics call is issued only after a status call returned
\* READY, and after the first READY there is no further status call or sleep
\* and only that one metrics call.
C15_CallOrder ==
    /\ \A i \in 1..Len(calls) : (Ops[i] = "StartCrawler") <=> (i = 1)
    /\ Len(calls) > 1 => (Answers # <<>> /\ Answers[1] = "start:ok")
    /\ NumCalls("GetCrawlerMetrics") <= 1
    /\ \A i \in 1..Len(calls) :
         Ops[i] = "GetCrawlerMetrics"
         => /\ i = Len(calls)
            /\ i > 1 /\ Ops[i - 1] = "GetCrawler"
            /\ Contains(Answers, "status:READY")
    /\ \A j \in 1..Len(events) :
         events[j] = "status:READY"
         => SubSeq(events, j + 1, Len(events)) \in AfterReady

C15_Witness ==
    /\ pc = "done" /\ NumCalls("GetCrawler") >= 3
    /\ NumCalls("GetCrawlerMetrics") = 1 /\ Last(events) = "metrics:ok"

\* C16: when a status call is rejected, on the first or a later poll, the
\* run stops polling at once: it ends with the failure carrying the remote
\* error's message and success "false" (written "true" before), with no
\* further status call, no sleep after it and no metrics call.
C16_StatusRejectionStops ==
    Contains(Answers, "status:err")
    => /\ pc = "done"
       /\ Last(Answers) = "status:err"
       /\ Len(SelectSeq(Answers, LAMBDA a : a = "status:err")) = 1
       /\ Len(thrown) = 1 /\ thrown[1] \in StatusErrors
       /\ Len(failed) = 1
       /\ thrown[1].isError => failed[1] = thrown[1].message
       /\ Success("false")
       /\ WritesOf("success") = <<"true", "false">>
       /\ Last(calls).op = "GetCrawler"
       /\ NumCalls("GetCrawlerMetrics") = 0

C16_Witness ==
    /\ pc = "done" /\ thrown = <<Throttling>> /\ NumCalls("GetCrawler") >= 2
    /\ failed = <<Msg("Rate exceeded")>>

IsDecimalOf(str, n) ==
    /\ str # <<>>
    /\ \A i \in 1..Len(str) :
         str[i] \in {"0", "1", "2", "3", "4", "5", "6", "7", "8", "9"}
    /\ Len(str) > 1 => str[1] # "0"
    /\ ParseInt(str) = [nan |-> FALSE, val |-> n]

MetricField(name) ==
    CASE name = "tables-created" -> "TablesCreated"
      [] name = "tables-updated" -> "TablesUpdated"
      [] name = "tables-deleted" -> "TablesDeleted"

\* the count of the field behind the output name in the first entry of the
\* list that came back, as an optional value
ReturnedCount(name) ==
    LET list == metricsResponse[1].CrawlerMetricsList
    IN  IF list = <<>> \/ list[1] = <<>>
          THEN <<>>
          ELSE list[1][1][MetricField(name)]

\* C18: when the metrics call succeeds after READY, each metric output is
\* the decimal string of the corresponding count of the first entry of the
\* returned list, 0 included, and "0" when the list is absent or empty or
\* the field is missing.
C18_MetricsOutputs ==
    (pc = "done" /\ Last(Answers) = "metrics:ok")
    => /\ metricsResponse # <<>>
       /\ \A n \in MetricNames :
            /\ IsSet(n)
            /\ IF ReturnedCount(n) = <<>>
                 THEN outputs[n] = <<"0">>
                 ELSE IsDecimalOf(outputs[n], ReturnedCount(n)[1])

C18_Witness ==
    /\ pc = "done" /\ Last(Answers) = "metrics:ok" /\ metricsResponse # <<>>
    /\ Len(metricsResponse[1].CrawlerMetricsList) = 1
    /\ Len(metricsResponse[1].CrawlerMetricsList[1]) = 2
    /\ ReturnedCount("tables-created") = <<0>>
    /\ ReturnedCount("tables-updated") = <<>>
    /\ ReturnedCount("tables-deleted") = <<MaxCount>>
    /\ outputs["tables-created"] = <<"0">>
    /\ outputs["tables-updated"] = <<"0">>
    /\ Len(outputs["tables-deleted"]) = 2

====
